---- MODULE Spec2Model ----
(***************************************************************************)
(* Model of curvine's mount record and unified storage dispatch:           *)
(*   - MountInfo path translation (get_ufs_path / get_cv_path /            *)
(*     toggle_path), curvine-common/src/state/mount.rs                     *)
(*   - UfsFileSystem::new provider resolution,                             *)
(*     curvine-client/src/unified/mod.rs                                   *)
(*   - TryFrom<&str> for MountType / ConsistencyStrategy / Provider /      *)
(*     WriteType, curvine-common/src/state/mount.rs                        *)
(*   - MountOptionsBuilder, MountOptions::to_info, MountInfo::auto_cache   *)
(*     and get_ttl, curvine-common/src/state/mount.rs                      *)
(* Strings that the code inspects character by character (paths, enum      *)
(* names) are sequences of one-character strings; strings the code only    *)
(* compares with literals (schemes, configuration values) are atoms.       *)
(***************************************************************************)
EXTENDS Integers, Sequences, FiniteSets

VARIABLES
    mnt,        \* the MountInfo in use: [cv_path, ufs_path]
    arg0,       \* the Path first handed to a MountInfo method
    hist,       \* the MountInfo methods called so far, each on the previous result
    cur,        \* the CommonResult<Path> of the last call (Ok(arg0) before any)
    features,   \* cargo features the client was built with
    req,        \* arguments of UfsFileSystem::new: [provider, scheme, conf]
    sel,        \* its FsResult<UfsFileSystem>
    text,       \* the &str handed to a try_from
    parsed,     \* its Result: [enum, ok, val]
    origin,     \* how the MountOptionsBuilder was made: "new" or "default"
    builder,    \* the MountOptionsBuilder
    calls,      \* the builder methods called so far, in order: [m, a]
    stage,      \* "building", "built" (build), "mounted" (to_info), "queried"
    options,    \* the MountOptions that build returned
    info,       \* the MountInfo that to_info returned
    ttl_ret     \* the result of auto_cache or get_ttl on info: [fn, flag, str]

\* the variables of the mount options and their MountInfo
bvars == <<origin, builder, calls, stage, options, info, ttl_ret>>

vars == <<mnt, arg0, hist, cur, features, req, sel, text, parsed, bvars>>

(***************************************************************************)
(* Bounds                                                                  *)
(***************************************************************************)
\* most segments in a mount prefix (cv_path; ufs_path after the authority)
MaxPrefixSegs == 2
\* most segments in a path handed to a MountInfo method
MaxPathSegs == 3
\* most MountInfo methods called in a row, each on the previous result
MaxCalls == 2
\* most builder methods called before build
MaxSetterCalls == 2

(***************************************************************************)
(* Strings as sequences of characters                                      *)
(***************************************************************************)
SLASH == <<"/">>
SCHEME_SEP == <<":", "/", "/">>

\* pat occurs in s at position i
MatchesAt(s, pat, i) ==
    /\ i >= 1
    /\ i + Len(pat) - 1 <= Len(s)
    /\ \A j \in 1..Len(pat) : s[i + j - 1] = pat[j]

\* str::find: position of the leftmost occurrence of pat in s, 0 if none
Find(s, pat) ==
    LET hits == {i \in 1..(Len(s) + 1) : MatchesAt(s, pat, i)}
    IN  IF hits = {} THEN 0 ELSE CHOOSE i \in hits : \A k \in hits : i <= k

\* str::replacen(pat, to, count): the first count matches of pat, left to
\* right and non-overlapping, replaced by to
RECURSIVE replacen(_, _, _, _)
replacen(s, pat, to, count) ==
    LET i == Find(s, pat)
    IN  IF count = 0 \/ i = 0 THEN s
        ELSE SubSeq(s, 1, i - 1) \o to
                \o replacen(SubSeq(s, i + Len(pat), Len(s)), pat, to, count - 1)

(***************************************************************************)
(* curvine_common::fs::Path, as the MountInfo tests use it                 *)
(***************************************************************************)
NoPath == [has_scheme |-> FALSE, scheme |-> <<>>, authority |-> <<>>, path |-> <<>>]

Ok(p) == [ok |-> TRUE, val |-> p, err |-> "none"]
Err(e) == [ok |-> FALSE, val |-> NoPath, err |-> e]

\* Path normalisation: every run of slashes becomes one slash and a trailing
\* slash is dropped, the root "/" excepted
RECURSIVE collapse(_)
collapse(p) ==
    IF Len(p) <= 1 THEN p
    ELSE IF p[1] = "/" /\ p[2] = "/" THEN collapse(Tail(p))
    ELSE <<p[1]>> \o collapse(Tail(p))

normalize_path(p) ==
    LET c == collapse(p)
    IN  IF Len(c) > 1 /\ c[Len(c)] = "/" THEN SubSeq(c, 1, Len(c) - 1) ELSE c

\* Path::from_str: <scheme>://<authority><path>, or a bare path
from_str(s) ==
    LET i == Find(s, SCHEME_SEP)
    IN  IF s = <<>> THEN Err("InvalidPath")
        ELSE IF i > 1
        THEN LET rest == SubSeq(s, i + 3, Len(s))
                 j == Find(rest, SLASH)
             IN  Ok([has_scheme |-> TRUE,
                     scheme |-> SubSeq(s, 1, i - 1),
                     authority |-> IF j = 0 THEN rest ELSE SubSeq(rest, 1, j - 1),
                     path |-> IF j = 0 THEN <<>>
                              ELSE normalize_path(SubSeq(rest, j, Len(rest)))])
        ELSE Ok([has_scheme |-> FALSE, scheme |-> <<>>, authority |-> <<>>,
                 path |-> normalize_path(s)])

\* Path::path
path_of(p) == p.path

\* Path::full_path
full_path(p) ==
    IF p.has_scheme THEN p.scheme \o SCHEME_SEP \o p.authority \o p.path
    ELSE p.path

\* Path::is_cv: a path without a scheme is in the cv namespace
is_cv(p) == ~p.has_scheme

(***************************************************************************)
(* MountInfo path translation                                              *)
(***************************************************************************)
\* a get_ufs_path without the namespace check
get_ufs_path_unchecked(m, path) ==
    from_str(m.ufs_path \o SLASH \o replacen(path_of(path), m.cv_path, <<>>, 1))

\* a get_ufs_path that appends the input whole
get_ufs_path_nostrip(m, path) ==
    IF ~is_cv(path) THEN Err("NotCvPath")
    ELSE from_str(m.ufs_path \o SLASH \o path_of(path))

get_ufs_path(m, path) ==
    IF ~is_cv(path) THEN Err("NotCvPath")
    ELSE LET sub_path == replacen(path_of(path), m.cv_path, <<>>, 1)
         IN  from_str(m.ufs_path \o SLASH \o sub_path)

get_cv_path(m, path) ==
    IF is_cv(path) THEN Err("NotUfsPath")
    ELSE LET sub_path == replacen(full_path(path), m.ufs_path, <<>>, 1)
         IN  from_str(m.cv_path \o SLASH \o sub_path)

\* a toggle_path that always converts towards the ufs namespace
toggle_path_one_way(m, path) == get_ufs_path(m, path)

toggle_path(m, path) ==
    IF is_cv(path) THEN get_ufs_path(m, path) ELSE get_cv_path(m, path)

(***************************************************************************)
(* MountOptionsBuilder, MountOptions and the MountInfo made from them      *)
(***************************************************************************)
\* Option<T>: None is <<>>, Some(x) is <<x>>
None == <<>>
Some(x) == <<x>>
unwrap_or(o, d) == IF o = <<>> THEN d ELSE o[1]

\* HashMap<String, String>
EmptyMap == [k \in {} |-> ""]
insert(map, key, value) ==
    [k \in DOMAIN map \cup {key} |-> IF k = key THEN value ELSE map[k]]

\* DurationUnit::DAY, in milliseconds
DAY == 86400000

\* #[derive(Default)] for MountOptionsBuilder
MountOptionsBuilder_default ==
    [update |-> FALSE,
     add_properties |-> EmptyMap,
     ttl_ms |-> None,
     ttl_action |-> None,
     consistency_strategy |-> None,
     storage_type |-> None,
     block_size |-> None,
     replicas |-> None,
     mount_type |-> "Cst",
     remove_properties |-> <<>>,
     write_type |-> "AsyncThrough",
     provider |-> None]

\* MountOptionsBuilder::new, which MountOptions::builder returns
MountOptionsBuilder_new ==
    [MountOptionsBuilder_default EXCEPT
        !.write_type = "AsyncThrough",
        !.ttl_ms = Some(7 * DAY),
        !.ttl_action = Some("Delete")]

builder_update(b, update) == [b EXCEPT !.update = update]

builder_add_property(b, kv) ==
    [b EXCEPT !.add_properties = insert(b.add_properties, kv[1], kv[2])]

builder_set_properties(b, props) == [b EXCEPT !.add_properties = props]

\* a ttl_ms setter that keeps a value already there
builder_ttl_ms_keep_first(b, ttl_ms) ==
    IF b.ttl_ms = None THEN [b EXCEPT !.ttl_ms = Some(ttl_ms)] ELSE b

builder_ttl_ms(b, ttl_ms) == [b EXCEPT !.ttl_ms = Some(ttl_ms)]

builder_ttl_action(b, ttl_action) == [b EXCEPT !.ttl_action = Some(ttl_action)]

builder_consistency_strategy(b, strategy) ==
    [b EXCEPT !.consistency_strategy = Some(strategy)]

builder_storage_type(b, storage_type) ==
    [b EXCEPT !.storage_type = Some(storage_type)]

builder_block_size(b, block_size) == [b EXCEPT !.block_size = Some(block_size)]

builder_replicas(b, replicas) == [b EXCEPT !.replicas = Some(replicas)]

builder_mount_type(b, mount_type) == [b EXCEPT !.mount_type = mount_type]

builder_remove_property(b, property) ==
    [b EXCEPT !.remove_properties = Append(b.remove_properties, property)]

builder_write_type(b, write_type) == [b EXCEPT !.write_type = write_type]

builder_provider(b, provider) == [b EXCEPT !.provider = Some(provider)]

\* MountOptionsBuilder::build
build(b) ==
    [update |-> b.update,
     add_properties |-> b.add_properties,
     ttl_ms |-> b.ttl_ms,
     ttl_action |-> b.ttl_action,
     consistency_strategy |-> b.consistency_strategy,
     storage_type |-> b.storage_type,
     block_size |-> b.block_size,
     replicas |-> b.replicas,
     mount_type |-> b.mount_type,
     remove_properties |-> b.remove_properties,
     write_type |-> b.write_type,
     provider |-> b.provider]

\* MountOptions::to_info
to_info(o, mount_id, cv_path, ufs_path) ==
    [cv_path |-> cv_path,
     ufs_path |-> ufs_path,
     mount_id |-> mount_id,
     properties |-> o.add_properties,
     ttl_ms |-> unwrap_or(o.ttl_ms, 0),
     ttl_action |-> unwrap_or(o.ttl_action, "None"),
     consistency_strategy |-> unwrap_or(o.consistency_strategy, "None"),
     storage_type |-> o.storage_type,
     block_size |-> o.block_size,
     replicas |-> o.replicas,
     mount_type |-> o.mount_type,
     write_type |-> o.write_type,
     provider |-> o.provider]

\* i64 division, which truncates toward zero (the divisor is positive)
i64_div(a, b) == IF a >= 0 THEN a \div b ELSE -((-a) \div b)

\* Display for i64: the decimal digits, "-" first for a negative number
Digits == <<"0", "1", "2", "3", "4", "5", "6", "7", "8", "9">>

RECURSIVE nat_to_string(_)
nat_to_string(n) ==
    IF n < 10 THEN <<Digits[n + 1]>>
    ELSE nat_to_string(n \div 10) \o <<Digits[(n % 10) + 1]>>

i64_to_string(n) == IF n < 0 THEN <<"-">> \o nat_to_string(-n) ELSE nat_to_string(n)

\* an auto_cache that also holds for a ttl of zero
auto_cache_with_zero(i) == i.ttl_ms >= 0

\* MountInfo::auto_cache
auto_cache(i) == i.ttl_ms > 0

\* MountInfo::get_ttl
get_ttl(i) ==
    IF auto_cache(i) THEN None
    ELSE Some(i64_to_string(i64_div(i.ttl_ms, 1000)) \o <<"s">>)

IdleTtlRet == [fn |-> "none", flag |-> FALSE, str |-> None]

BuilderIdle ==
    /\ origin = "default"
    /\ builder = MountOptionsBuilder_default
    /\ calls = <<>>
    /\ stage = "idle"
    /\ options = build(MountOptionsBuilder_default)
    /\ info = to_info(build(MountOptionsBuilder_default), 0, <<>>, <<>>)
    /\ ttl_ret = IdleTtlRet

(***************************************************************************)
(* Inputs of the path translation                                          *)
(***************************************************************************)
\* segment names; "a" is a proper prefix of "ab"
SegNames == {<<"a">>, <<"a", "b">>}

RECURSIVE JoinSegs(_)
JoinSegs(ss) ==
    IF ss = <<>> THEN <<>> ELSE SLASH \o Head(ss) \o JoinSegs(Tail(ss))

\* the normalised absolute paths of lo..hi segments ("" for no segment)
AbsPaths(lo, hi) ==
    {JoinSegs(ss) : ss \in UNION {[1..n -> SegNames] : n \in lo..hi}}

\* scheme and authority of the under file system: s3://a
UfsRoot == <<"s", "3">> \o SCHEME_SEP \o <<"a">>

\* mount records: both prefixes absolute, normalised, cv_path not the root
Mounts ==
    [cv_path : AbsPaths(1, MaxPrefixSegs),
     ufs_path : {UfsRoot \o p : p \in AbsPaths(0, MaxPrefixSegs)}]

CvInputs == {SLASH} \cup AbsPaths(1, MaxPathSegs)
UfsInputs == {UfsRoot \o p : p \in AbsPaths(0, MaxPathSegs)}
PathInputs == {from_str(s).val : s \in CvInputs \cup UfsInputs}

IdleMount == [cv_path |-> SLASH \o <<"a">>, ufs_path |-> UfsRoot]
IdleReq == [provider |-> "None", scheme |-> "none", conf |-> <<>>]
IdleSel == [ok |-> FALSE, val |-> "NotCalled", err |-> "NotCalled"]
IdleParsed == [enum |-> "none", ok |-> FALSE, val |-> "NotCalled"]

PathIdle ==
    /\ mnt = IdleMount
    /\ arg0 = NoPath
    /\ hist = <<>>
    /\ cur = Ok(NoPath)

ResolveIdle ==
    /\ features = {}
    /\ req = IdleReq
    /\ sel = IdleSel

ParseIdle ==
    /\ text = <<>>
    /\ parsed = IdleParsed

(***************************************************************************)
(* Path translation as a state machine: a mount record and a path are      *)
(* chosen, then MountInfo methods are called, each on the previous result. *)
(***************************************************************************)
InitPath ==
    /\ mnt \in Mounts
    /\ arg0 \in PathInputs
    /\ hist = <<>>
    /\ cur = Ok(arg0)
    /\ ResolveIdle
    /\ ParseIdle
    /\ BuilderIdle

CanCall == Len(hist) < MaxCalls /\ cur.ok

GetUfsPath ==
    /\ CanCall
    /\ cur' = get_ufs_path(mnt, cur.val)
    /\ hist' = Append(hist, "get_ufs_path")
    /\ UNCHANGED <<mnt, arg0, features, req, sel, text, parsed>>
    /\ UNCHANGED bvars

GetCvPath ==
    /\ CanCall
    /\ cur' = get_cv_path(mnt, cur.val)
    /\ hist' = Append(hist, "get_cv_path")
    /\ UNCHANGED <<mnt, arg0, features, req, sel, text, parsed>>
    /\ UNCHANGED bvars

TogglePath ==
    /\ CanCall
    /\ cur' = toggle_path(mnt, cur.val)
    /\ hist' = Append(hist, "toggle_path")
    /\ UNCHANGED <<mnt, arg0, features, req, sel, text, parsed>>
    /\ UNCHANGED bvars

NextPath == GetUfsPath \/ GetCvPath \/ TogglePath

SpecPath == InitPath /\ [][NextPath]_vars

(***************************************************************************)
(* UfsFileSystem::new: which backend file system is constructed            *)
(***************************************************************************)
\* path.scheme() of a path that has no scheme
NoScheme == "<none>"
\* conf.get("provider") of a map without that key
NoValue == "<absent>"

\* Ok(UfsFileSystem::<backend>): the backend's own constructor is what runs
Selected(backend) == [ok |-> TRUE, val |-> backend, err |-> "none"]
Failed(msg) == [ok |-> FALSE, val |-> "none", err |-> msg]

\* the scheme list of the explicit Opendal arm, without "oss"
OPENDAL_SCHEMES_no_oss ==
    {"s3", "cos", "gcs", "azure", "azblob", "hdfs", "webhdfs"}

\* schemes the (Provider::Opendal, Some(scheme)) arm accepts
OPENDAL_SCHEMES ==
    {"s3", "oss", "cos", "gcs", "azure", "azblob", "hdfs", "webhdfs"}

\* schemes the second (Provider::Auto, Some(scheme)) arm accepts
AUTO_SCHEMES == {"s3", "cos", "gcs", "azure", "azblob", "hdfs", "webhdfs"}

\* the body of an arm that constructs OssHdfsFileSystem
new_oss_hdfs(feats) ==
    IF "oss-hdfs" \in feats THEN Selected("OssHdfs")
    ELSE Failed("oss-hdfs provider is not enabled")

\* the body of an arm that constructs OpendalFileSystem
new_opendal(feats) ==
    IF "opendal" \in feats THEN Selected("Opendal")
    ELSE Failed("opendal provider is not enabled")

\* a default that prefers opendal over oss-hdfs
auto_oss_default_opendal_first(feats) ==
    IF "opendal" \in feats THEN Selected("Opendal")
    ELSE IF "oss-hdfs" \in feats THEN Selected("OssHdfs")
    ELSE Failed("no OSS provider is enabled")

\* the None arm of the provider lookup: the compiled-in default
auto_oss_default(feats) ==
    IF "oss-hdfs" \in feats THEN Selected("OssHdfs")
    ELSE IF "opendal" \in feats THEN Selected("Opendal")
    ELSE Failed("no OSS provider is enabled")

\* conf.get("provider")
conf_get(conf, key) == IF key \in DOMAIN conf THEN conf[key] ELSE NoValue

\* an (Auto, "oss") arm that treats an unknown provider value as absent
auto_oss_lenient(conf, feats) ==
    LET v == conf_get(conf, "provider")
    IN  IF v = "oss-hdfs" THEN new_oss_hdfs(feats)
        ELSE IF v = "opendal" THEN new_opendal(feats)
        ELSE auto_oss_default(feats)

\* the (Provider::Auto, Some("oss")) arm
auto_oss(conf, feats) ==
    LET v == conf_get(conf, "provider")
    IN  IF v = "oss-hdfs" THEN new_oss_hdfs(feats)
        ELSE IF v = "opendal" THEN new_opendal(feats)
        ELSE IF v # NoValue THEN Failed("invalid provider in config")
        ELSE auto_oss_default(feats)

\* last arms with the scheme looked at before the provider
no_backend_scheme_first(provider, scheme) ==
    IF scheme # NoScheme
    THEN IF provider = "Auto" THEN Failed("unsupported scheme")
         ELSE Failed("provider is not compatible with scheme")
    ELSE IF provider = "Auto" THEN Failed("missing scheme")
         ELSE Failed("provider is not compatible with scheme")

\* the last four arms, none of which constructs a backend
no_backend(provider, scheme) ==
    IF provider = "Auto" /\ scheme # NoScheme THEN Failed("unsupported scheme")
    ELSE IF provider = "Auto" THEN Failed("missing scheme")
    ELSE IF scheme # NoScheme THEN Failed("provider is not compatible with scheme")
    ELSE Failed("missing scheme")

\* provider.unwrap_or(Provider::Auto)
unwrap_or_auto(provider) == IF provider = "None" THEN "Auto" ELSE provider

\* UfsFileSystem::new(path, conf, provider), built with the features feats
UfsFileSystem_new(scheme, conf, preferred, feats) ==
    LET provider == unwrap_or_auto(preferred)
    IN  IF provider = "OssHdfs" /\ scheme = "oss" THEN new_oss_hdfs(feats)
        ELSE IF provider = "Opendal" /\ scheme \in OPENDAL_SCHEMES
            THEN new_opendal(feats)
        ELSE IF provider = "Auto" /\ scheme = "oss" THEN auto_oss(conf, feats)
        ELSE IF "opendal" \in feats /\ provider = "Auto" /\ scheme \in AUTO_SCHEMES
            THEN Selected("Opendal")
        ELSE no_backend(provider, scheme)

(***************************************************************************)
(* Provider resolution as a state machine: the build's features and the    *)
(* arguments are chosen, then UfsFileSystem::new is called once.           *)
(***************************************************************************)
Features == SUBSET {"opendal", "oss-hdfs"}
Providers == {"None", "Auto", "OssHdfs", "Opendal"}
Schemes ==
    {"s3", "oss", "cos", "gcs", "azure", "azblob", "hdfs", "webhdfs",
     "ftp", "file", "cv", "OSS", NoScheme}
ConfKeys == {"provider", "endpoint"}
ConfValues == {"oss-hdfs", "opendal", "", "OSS-HDFS", "auto"}
Confs == UNION {[D -> ConfValues] : D \in SUBSET ConfKeys}

InitResolve ==
    /\ features \in Features
    /\ req \in [provider : Providers, scheme : Schemes, conf : Confs]
    /\ sel = IdleSel
    /\ PathIdle
    /\ ParseIdle
    /\ BuilderIdle

New ==
    /\ sel = IdleSel
    /\ sel' = UfsFileSystem_new(req.scheme, req.conf, req.provider, features)
    /\ UNCHANGED <<mnt, arg0, hist, cur, features, req, text, parsed>>
    /\ UNCHANGED bvars

NextResolve == New

SpecResolve == InitResolve /\ [][NextResolve]_vars

(***************************************************************************)
(* TryFrom<&str> for MountType, ConsistencyStrategy, Provider, WriteType   *)
(***************************************************************************)
LowerLetters == <<"a", "b", "c", "d", "e", "f", "g", "h", "i", "j", "k", "l", "m", "n", "o", "p", "q", "r", "s", "t", "u", "v", "w", "x", "y", "z">>
UpperLetters == <<"A", "B", "C", "D", "E", "F", "G", "H", "I", "J", "K", "L", "M", "N", "O", "P", "Q", "R", "S", "T", "U", "V", "W", "X", "Y", "Z">>

\* position of c in the alphabet row, 0 if it is not in it
LetterIndex(row, c) ==
    IF \E k \in 1..Len(row) : row[k] = c
    THEN CHOOSE k \in 1..Len(row) : row[k] = c
    ELSE 0

\* char::to_uppercase / char::to_lowercase on the characters used here
upper_char(c) ==
    LET k == LetterIndex(LowerLetters, c) IN IF k = 0 THEN c ELSE UpperLetters[k]
lower_char(c) ==
    LET k == LetterIndex(UpperLetters, c) IN IF k = 0 THEN c ELSE LowerLetters[k]

\* str::to_uppercase / str::to_lowercase
to_uppercase(s) == [i \in 1..Len(s) |-> upper_char(s[i])]
to_lowercase(s) == [i \in 1..Len(s) |-> lower_char(s[i])]

\* the string literals of the match arms
STR_CST == <<"C", "S", "T">>
STR_ORCH == <<"O", "R", "C", "H">>
STR_NONE == <<"N", "O", "N", "E">>
STR_ALWAYS == <<"A", "L", "W", "A", "Y", "S">>
STR_auto == <<"a", "u", "t", "o">>
STR_oss_hdfs == <<"o", "s", "s", "-", "h", "d", "f", "s">>
STR_opendal == <<"o", "p", "e", "n", "d", "a", "l">>
STR_cache == <<"c", "a", "c", "h", "e">>
STR_through == <<"t", "h", "r", "o", "u", "g", "h">>
STR_async_through == <<"a", "s", "y", "n", "c", "_", "t", "h", "r", "o", "u", "g", "h">>
STR_cache_through == <<"c", "a", "c", "h", "e", "_", "t", "h", "r", "o", "u", "g", "h">>

Parsed(enum, variant) == [enum |-> enum, ok |-> TRUE, val |-> variant]
Invalid(enum) == [enum |-> enum, ok |-> FALSE, val |-> "invalid"]

\* a MountType parser that falls back to the default variant
MountType_try_from_default(value) ==
    LET v == to_uppercase(value)
    IN  IF v = STR_ORCH THEN Parsed("MountType", "Orch")
        ELSE Parsed("MountType", "Cst")

MountType_try_from(value) ==
    LET v == to_uppercase(value)
    IN  IF v = STR_CST THEN Parsed("MountType", "Cst")
        ELSE IF v = STR_ORCH THEN Parsed("MountType", "Orch")
        ELSE Invalid("MountType")

ConsistencyStrategy_try_from(value) ==
    LET v == to_uppercase(value)
    IN  IF v = STR_NONE THEN Parsed("ConsistencyStrategy", "None")
        ELSE IF v = STR_ALWAYS THEN Parsed("ConsistencyStrategy", "Always")
        ELSE Invalid("ConsistencyStrategy")

Provider_try_from(value) ==
    LET v == to_lowercase(value)
    IN  IF v = STR_auto THEN Parsed("Provider", "Auto")
        ELSE IF v = STR_oss_hdfs THEN Parsed("Provider", "OssHdfs")
        ELSE IF v = STR_opendal THEN Parsed("Provider", "Opendal")
        ELSE Invalid("Provider")

WriteType_try_from(value) ==
    IF value = STR_cache THEN Parsed("WriteType", "Cache")
    ELSE IF value = STR_through THEN Parsed("WriteType", "Through")
    ELSE IF value = STR_async_through THEN Parsed("WriteType", "AsyncThrough")
    ELSE IF value = STR_cache_through THEN Parsed("WriteType", "CacheThrough")
    ELSE Invalid("WriteType")

(***************************************************************************)
(* Enum parsing as a state machine: a string is chosen, then one try_from  *)
(* is called on it.                                                        *)
(***************************************************************************)
\* every spelling of w with each character in upper or lower case
Spellings(w) ==
    {[i \in 1..Len(w) |-> IF i \in up THEN upper_char(w[i]) ELSE lower_char(w[i])] :
        up \in SUBSET (1..Len(w))}

\* the names the four enums recognise, as the specification spells them
RecognizedWords ==
    {STR_CST, STR_ORCH, STR_NONE, STR_ALWAYS, STR_auto, STR_oss_hdfs, STR_opendal,
     STR_cache, STR_through, STR_async_through, STR_cache_through}

\* strings no enum recognises: "", near misses, a variant name, a number
OtherWords ==
    {<<>>, <<"b", "o", "g", "u", "s">>, <<"c", "s">>, <<"c", "s", "t", "s">>, <<"c", "s", "t", " ">>, <<"o", "s", "s", "_", "h", "d", "f", "s">>, <<"a", "s", "y", "n", "c", "-", "t", "h", "r", "o", "u", "g", "h">>, <<"a", "s", "y", "n", "c", "t", "h", "r", "o", "u", "g", "h">>, <<"d", "e", "f", "a", "u", "l", "t">>, <<"0">>}

ParseInputs == UNION {Spellings(w) : w \in RecognizedWords \cup OtherWords}

InitParse ==
    /\ text \in ParseInputs
    /\ parsed = IdleParsed
    /\ PathIdle
    /\ ResolveIdle
    /\ BuilderIdle

MountTypeTryFrom ==
    /\ parsed = IdleParsed
    /\ parsed' = MountType_try_from(text)
    /\ UNCHANGED <<mnt, arg0, hist, cur, features, req, sel, text>>
    /\ UNCHANGED bvars

ConsistencyStrategyTryFrom ==
    /\ parsed = IdleParsed
    /\ parsed' = ConsistencyStrategy_try_from(text)
    /\ UNCHANGED <<mnt, arg0, hist, cur, features, req, sel, text>>
    /\ UNCHANGED bvars

ProviderTryFrom ==
    /\ parsed = IdleParsed
    /\ parsed' = Provider_try_from(text)
    /\ UNCHANGED <<mnt, arg0, hist, cur, features, req, sel, text>>
    /\ UNCHANGED bvars

WriteTypeTryFrom ==
    /\ parsed = IdleParsed
    /\ parsed' = WriteType_try_from(text)
    /\ UNCHANGED <<mnt, arg0, hist, cur, features, req, sel, text>>
    /\ UNCHANGED bvars

NextParse ==
    \/ MountTypeTryFrom
    \/ ConsistencyStrategyTryFrom
    \/ ProviderTryFrom
    \/ WriteTypeTryFrom

SpecParse == InitParse /\ [][NextParse]_vars

(***************************************************************************)
(* Mount options as a state machine: a builder is made, builder methods    *)
(* are called on it, build consumes it, to_info makes the MountInfo, and   *)
(* auto_cache or get_ttl is called on that.                                *)
(***************************************************************************)
TtlValues == {0, -1500, 2500}
TtlActions == {"None", "Delete"}
Strategies == {"None", "Always"}
StorageTypes == {"Ssd", "Disk"}
BlockSizes == {64, 128}
ReplicaCounts == {1, 3}
MountTypes == {"Cst", "Orch"}
WriteTypes == {"Cache", "Through", "AsyncThrough", "CacheThrough"}
BuilderProviders == {"Auto", "OssHdfs", "Opendal"}
PropKeys == {"k1", "k2"}
PropValues == {"v1", "v2"}
PropMaps == {EmptyMap, [k \in {"k1"} |-> "v2"]}

InitBuilder ==
    /\ origin \in {"new", "default"}
    /\ builder = IF origin = "new" THEN MountOptionsBuilder_new
                 ELSE MountOptionsBuilder_default
    /\ calls = <<>>
    /\ stage = "building"
    /\ options = build(MountOptionsBuilder_default)
    /\ info = to_info(build(MountOptionsBuilder_default), 0, <<>>, <<>>)
    /\ ttl_ret = IdleTtlRet
    /\ PathIdle
    /\ ResolveIdle
    /\ ParseIdle

\* a builder method ran: the builder is replaced and the call is recorded
Called_(m, a, b) ==
    /\ stage = "building"
    /\ Len(calls) < MaxSetterCalls
    /\ builder' = b
    /\ calls' = Append(calls, [m |-> m, a |-> a])
    /\ UNCHANGED <<origin, stage, options, info, ttl_ret>>
    /\ UNCHANGED <<mnt, arg0, hist, cur, features, req, sel, text, parsed>>

Update == \E v \in BOOLEAN : Called_("update", v, builder_update(builder, v))

AddProperty ==
    \E k \in PropKeys, v \in PropValues :
        Called_("add_property", <<k, v>>, builder_add_property(builder, <<k, v>>))

SetProperties ==
    \E m \in PropMaps : Called_("set_properties", m, builder_set_properties(builder, m))

TtlMs == \E v \in TtlValues : Called_("ttl_ms", v, builder_ttl_ms(builder, v))

TtlActionSet ==
    \E v \in TtlActions : Called_("ttl_action", v, builder_ttl_action(builder, v))

ConsistencyStrategySet ==
    \E v \in Strategies :
        Called_("consistency_strategy", v, builder_consistency_strategy(builder, v))

StorageTypeSet ==
    \E v \in StorageTypes : Called_("storage_type", v, builder_storage_type(builder, v))

BlockSize ==
    \E v \in BlockSizes : Called_("block_size", v, builder_block_size(builder, v))

Replicas == \E v \in ReplicaCounts : Called_("replicas", v, builder_replicas(builder, v))

MountTypeSet ==
    \E v \in MountTypes : Called_("mount_type", v, builder_mount_type(builder, v))

RemoveProperty ==
    \E k \in PropKeys : Called_("remove_property", k, builder_remove_property(builder, k))

WriteTypeSet ==
    \E v \in WriteTypes : Called_("write_type", v, builder_write_type(builder, v))

ProviderSet ==
    \E v \in BuilderProviders : Called_("provider", v, builder_provider(builder, v))

Build ==
    /\ stage = "building"
    /\ options' = build(builder)
    /\ stage' = "built"
    /\ UNCHANGED <<origin, builder, calls, info, ttl_ret>>
    /\ UNCHANGED <<mnt, arg0, hist, cur, features, req, sel, text, parsed>>

ToInfo ==
    /\ stage = "built"
    /\ info' = to_info(options, 1, IdleMount.cv_path, IdleMount.ufs_path)
    /\ stage' = "mounted"
    /\ UNCHANGED <<origin, builder, calls, options, ttl_ret>>
    /\ UNCHANGED <<mnt, arg0, hist, cur, features, req, sel, text, parsed>>

AutoCache ==
    /\ stage = "mounted"
    /\ ttl_ret' = [fn |-> "auto_cache", flag |-> auto_cache(info), str |-> None]
    /\ stage' = "queried"
    /\ UNCHANGED <<origin, builder, calls, options, info>>
    /\ UNCHANGED <<mnt, arg0, hist, cur, features, req, sel, text, parsed>>

GetTtl ==
    /\ stage = "mounted"
    /\ ttl_ret' = [fn |-> "get_ttl", flag |-> FALSE, str |-> get_ttl(info)]
    /\ stage' = "queried"
    /\ UNCHANGED <<origin, builder, calls, options, info>>
    /\ UNCHANGED <<mnt, arg0, hist, cur, features, req, sel, text, parsed>>

NextBuilder ==
    \/ Update
    \/ AddProperty
    \/ SetProperties
    \/ TtlMs
    \/ TtlActionSet
    \/ ConsistencyStrategySet
    \/ StorageTypeSet
    \/ BlockSize
    \/ Replicas
    \/ MountTypeSet
    \/ RemoveProperty
    \/ WriteTypeSet
    \/ ProviderSet
    \/ Build
    \/ ToInfo
    \/ AutoCache
    \/ GetTtl

SpecBuilder == InitBuilder /\ [][NextBuilder]_vars

(***************************************************************************)
(* Claims about path translation (checked under SpecPath)                  *)
(***************************************************************************)
\* the sub-path s when full is prefix/s with s not empty, else the empty string
SubUnder(prefix, full) ==
    IF Len(full) > Len(prefix) + 1 /\ MatchesAt(full, prefix \o SLASH, 1)
    THEN SubSeq(full, Len(prefix) + 2, Len(full))
    ELSE <<>>

\* the sub-path of arg0 below the ufs prefix (arg0 a ufs path), below the cv
\* prefix (arg0 a cv path); empty when arg0 is not below the prefix
UfsSub == IF arg0.has_scheme THEN SubUnder(mnt.ufs_path, full_path(arg0)) ELSE <<>>
CvSub == IF arg0.has_scheme THEN <<>> ELSE SubUnder(mnt.cv_path, full_path(arg0))

\* arg0 lies below the mount prefix of its own namespace
UnderMount == UfsSub # <<>> \/ CvSub # <<>>

\* C1: for a mount with prefixes U, C and every sub-path s,
\* get_cv_path(U/s) is exactly C/s and get_ufs_path(C/s) is exactly U/s:
\* no doubled slash, no dropped or added segment.
C1_SubPathTranslation ==
    /\ (hist = <<"get_cv_path">> /\ UfsSub # <<>>)
          => (cur.ok /\ full_path(cur.val) = mnt.cv_path \o SLASH \o UfsSub)
    /\ (hist = <<"get_ufs_path">> /\ CvSub # <<>>)
          => (cur.ok /\ full_path(cur.val) = mnt.ufs_path \o SLASH \o CvSub)

\* a two-segment sub-path of a mount with a nested ufs prefix was translated
C1_Witness ==
    /\ hist = <<"get_cv_path">>
    /\ mnt.ufs_path # UfsRoot
    /\ Len(UfsSub) >= 3
    /\ cur.ok
    /\ full_path(cur.val) = mnt.cv_path \o SLASH \o UfsSub

\* C2: for every path p below the mount, in either namespace,
\* toggle_path(toggle_path(p)) = p, get_ufs_path(get_cv_path(u)) = u and
\* get_cv_path(get_ufs_path(c)) = c.
C2_RoundTrip ==
    UnderMount =>
        /\ hist = <<"toggle_path", "toggle_path">> => cur = Ok(arg0)
        /\ (hist = <<"get_cv_path", "get_ufs_path">> /\ arg0.has_scheme)
              => cur = Ok(arg0)
        /\ (hist = <<"get_ufs_path", "get_cv_path">> /\ ~arg0.has_scheme)
              => cur = Ok(arg0)

\* a cv path below the mount was toggled twice and came back
C2_Witness ==
    /\ hist = <<"toggle_path", "toggle_path">>
    /\ CvSub # <<>>
    /\ cur = Ok(arg0)

\* C12: the mount's prefix is removed only as a leading prefix: for an input
\* in the right namespace that does not begin with the prefix, no occurrence
\* of the prefix inside the path is removed and no segment of the input is
\* dropped, so the result is the Path of the other prefix, "/" and the whole
\* input.
C12_LeadingPrefixOnly ==
    /\ (/\ hist = <<"get_ufs_path">>
        /\ ~arg0.has_scheme
        /\ ~MatchesAt(path_of(arg0), mnt.cv_path, 1))
          => cur = from_str(mnt.ufs_path \o SLASH \o path_of(arg0))
    /\ (/\ hist = <<"get_cv_path">>
        /\ arg0.has_scheme
        /\ ~MatchesAt(full_path(arg0), mnt.ufs_path, 1))
          => cur = from_str(mnt.cv_path \o SLASH \o full_path(arg0))

\* C10: get_ufs_path fails with a direction error on every input that is
\* not a cv path, get_cv_path on every input that is a cv path, and
\* toggle_path never fails with a direction error.
C10_DirectionErrors ==
    /\ (hist = <<"get_ufs_path">> /\ arg0.has_scheme)
          => (~cur.ok /\ cur.err = "NotCvPath")
    /\ (hist = <<"get_cv_path">> /\ ~arg0.has_scheme)
          => (~cur.ok /\ cur.err = "NotUfsPath")
    /\ (hist # <<>> /\ hist[Len(hist)] = "toggle_path")
          => cur.err \notin {"NotCvPath", "NotUfsPath"}

\* get_ufs_path was refused on a ufs path
C10_Witness ==
    /\ hist = <<"get_ufs_path">>
    /\ arg0.has_scheme
    /\ cur.err = "NotCvPath"

(***************************************************************************)
(* Claims about provider resolution (checked under SpecResolve)            *)
(***************************************************************************)
\* the error kind the specification gives to each message of the code
Kind(msg) ==
    CASE msg \in {"oss-hdfs provider is not enabled",
                  "opendal provider is not enabled"} -> "ProviderUnavailable"
      [] msg = "invalid provider in config" -> "InvalidProviderConfig"
      [] msg = "no OSS provider is enabled" -> "NoProviderAvailable"
      [] msg = "unsupported scheme" -> "UnsupportedScheme"
      [] msg = "missing scheme" -> "MissingScheme"
      [] msg = "provider is not compatible with scheme" -> "ProviderSchemeMismatch"
      [] OTHER -> "none"

\* the schemes the specification recognises
RecognizedSchemes ==
    {"s3", "oss", "cos", "gcs", "azure", "azblob", "hdfs", "webhdfs"}

Called == sel # IdleSel
IsAuto == req.provider \in {"None", "Auto"}
HasOssHdfs == "oss-hdfs" \in features
HasOpendal == "opendal" \in features
FailedWith(kind) == ~sel.ok /\ sel.val = "none" /\ Kind(sel.err) = kind
ConfProvider == conf_get(req.conf, "provider")

\* C3: with preferred Auto (or none) and scheme "oss", config["provider"]
\* decides: "oss-hdfs" selects OssHdfs and "opendal" selects Opendal, each
\* failing with ProviderUnavailable when that capability is missing; with
\* the key absent OssHdfs is selected if available, else Opendal if
\* available, else the call fails with NoProviderAvailable.
C3_AutoOss ==
    (Called /\ IsAuto /\ req.scheme = "oss") =>
        /\ ConfProvider = "oss-hdfs" =>
              IF HasOssHdfs THEN sel = Selected("OssHdfs")
              ELSE FailedWith("ProviderUnavailable")
        /\ ConfProvider = "opendal" =>
              IF HasOpendal THEN sel = Selected("Opendal")
              ELSE FailedWith("ProviderUnavailable")
        /\ ConfProvider = NoValue =>
              IF HasOssHdfs THEN sel = Selected("OssHdfs")
              ELSE IF HasOpendal THEN sel = Selected("Opendal")
              ELSE FailedWith("NoProviderAvailable")

\* config["provider"] = "opendal" selected Opendal although OssHdfs is built in
C3_Witness ==
    /\ Called /\ IsAuto /\ req.scheme = "oss"
    /\ ConfProvider = "opendal"
    /\ HasOssHdfs /\ HasOpendal
    /\ sel = Selected("Opendal")

\* C4: with preferred Auto and a scheme in {s3, cos, gcs, azure, azblob,
\* hdfs, webhdfs}, Opendal is selected when available and the call fails
\* with ProviderUnavailable when it is not; UnsupportedScheme is returned
\* only for preferred Auto and a scheme outside the recognised set.
C4_AutoOtherSchemes ==
    Called =>
        /\ (IsAuto /\ req.scheme \in RecognizedSchemes \ {"oss"}) =>
              IF HasOpendal THEN sel = Selected("Opendal")
              ELSE FailedWith("ProviderUnavailable")
        /\ FailedWith("UnsupportedScheme") =>
              (IsAuto /\ req.scheme # NoScheme /\ req.scheme \notin RecognizedSchemes)

\* C5: an explicit provider wins over the mount configuration: OssHdfs
\* resolves only with scheme "oss", Opendal only with a recognised scheme,
\* whatever config["provider"] holds, failing with ProviderUnavailable if
\* the capability is missing; every other (explicit provider, present
\* scheme) pair fails with ProviderSchemeMismatch.
C5_ExplicitProvider ==
    (Called /\ ~IsAuto /\ req.scheme # NoScheme) =>
        IF req.provider = "OssHdfs" /\ req.scheme = "oss"
        THEN IF HasOssHdfs THEN sel = Selected("OssHdfs")
             ELSE FailedWith("ProviderUnavailable")
        ELSE IF req.provider = "Opendal" /\ req.scheme \in RecognizedSchemes
        THEN IF HasOpendal THEN sel = Selected("Opendal")
             ELSE FailedWith("ProviderUnavailable")
        ELSE FailedWith("ProviderSchemeMismatch")

\* explicit Opendal on "oss" selected Opendal against config["provider"]
C5_Witness ==
    /\ Called
    /\ req.provider = "Opendal" /\ req.scheme = "oss"
    /\ ConfProvider = "oss-hdfs"
    /\ HasOssHdfs
    /\ sel = Selected("Opendal")

\* C6: with preferred Auto, scheme "oss" and config["provider"] present
\* with a value other than "oss-hdfs" or "opendal", the call fails with
\* InvalidProviderConfig for every capability set and selects no backend.
C6_InvalidProviderConfig ==
    (/\ Called /\ IsAuto /\ req.scheme = "oss"
     /\ "provider" \in DOMAIN req.conf
     /\ req.conf["provider"] \notin {"oss-hdfs", "opendal"})
        => FailedWith("InvalidProviderConfig")

\* an unknown provider value was refused although both backends are built in
C6_Witness ==
    /\ Called /\ IsAuto /\ req.scheme = "oss"
    /\ "provider" \in DOMAIN req.conf
    /\ req.conf["provider"] = "OSS-HDFS"
    /\ HasOssHdfs /\ HasOpendal
    /\ FailedWith("InvalidProviderConfig")

\* C7: a path without a scheme fails with MissingScheme for every preferred
\* provider, configuration and capability set.
C7_MissingScheme ==
    (Called /\ req.scheme = NoScheme) => FailedWith("MissingScheme")

\* an explicit provider on a path without a scheme
C7_Witness ==
    /\ Called
    /\ req.scheme = NoScheme
    /\ req.provider = "OssHdfs"
    /\ FailedWith("MissingScheme")

(***************************************************************************)
(* Claims about enum parsing (checked under SpecParse)                     *)
(***************************************************************************)
\* c and d are the same character or the two cases of one letter
SameLetter(c, d) ==
    \/ c = d
    \/ \E k \in 1..Len(LowerLetters) : {c, d} = {LowerLetters[k], UpperLetters[k]}

\* s spells name, letter case aside
IsSpellingOf(s, name) ==
    /\ Len(s) = Len(name)
    /\ \A i \in 1..Len(name) : SameLetter(s[i], name[i])

\* the recognised names of each enum and the variant each stands for
EnumNames ==
    {<<"MountType", STR_CST, "Cst">>,
     <<"MountType", STR_ORCH, "Orch">>,
     <<"ConsistencyStrategy", STR_NONE, "None">>,
     <<"ConsistencyStrategy", STR_ALWAYS, "Always">>,
     <<"Provider", STR_auto, "Auto">>,
     <<"Provider", STR_oss_hdfs, "OssHdfs">>,
     <<"Provider", STR_opendal, "Opendal">>,
     <<"WriteType", STR_cache, "Cache">>,
     <<"WriteType", STR_through, "Through">>,
     <<"WriteType", STR_async_through, "AsyncThrough">>,
     <<"WriteType", STR_cache_through, "CacheThrough">>}

ParseCalled == parsed # IdleParsed

\* C8: parsing each of the four enums is case-insensitive: every
\* upper/lower-case spelling of a recognised name parses to the variant of
\* the canonical spelling.
C8_CaseInsensitive ==
    \A n \in EnumNames :
        (ParseCalled /\ parsed.enum = n[1] /\ IsSpellingOf(text, n[2]))
            => parsed = Parsed(n[1], n[3])

\* C9: for each of the four enums, try_from on a string that is not one of
\* its recognised names, the empty string included, returns an error and
\* never a variant.
C9_UnrecognizedRejected ==
    (/\ ParseCalled
     /\ \A n \in EnumNames : parsed.enum = n[1] => ~IsSpellingOf(text, n[2]))
        => (~parsed.ok /\ parsed.val = "invalid")

\* the empty string was refused by MountType, whose default is Cst
C9_Witness ==
    /\ ParseCalled
    /\ parsed.enum = "MountType"
    /\ text = <<>>
    /\ ~parsed.ok

(***************************************************************************)
(* Claims about mount options and the MountInfo (checked under SpecBuilder)*)
(***************************************************************************)
\* the calls of method m, by position in the call sequence
CallsOf(m) == {i \in 1..Len(calls) : calls[i].m = m}
Latest(idx) == CHOOSE i \in idx : \A j \in idx : j <= i

\* the argument of the last call of m, or dflt when m was never called
LastArg(m, dflt) ==
    IF CallsOf(m) = {} THEN dflt ELSE calls[Latest(CallsOf(m))].a
LastSome(m, dflt) ==
    IF CallsOf(m) = {} THEN dflt ELSE Some(calls[Latest(CallsOf(m))].a)

\* add_properties, read off the call sequence: the map of the last
\* set_properties (empty if none), then every later add_property, a later
\* one of the same key replacing an earlier one
ExpectedProperties ==
    LET sets == CallsOf("set_properties")
        from == IF sets = {} THEN 0 ELSE Latest(sets)
        base == IF sets = {} THEN EmptyMap ELSE calls[from].a
        adds(k) == {i \in CallsOf("add_property") : i > from /\ calls[i].a[1] = k}
        keys == DOMAIN base \cup {k \in PropKeys : adds(k) # {}}
    IN  [k \in keys |-> IF adds(k) # {} THEN calls[Latest(adds(k))].a[2] ELSE base[k]]

\* add_properties, were add_property a plain setter: the argument of the last
\* call on the field alone
LastProperties ==
    LET idx == CallsOf("set_properties") \cup CallsOf("add_property")
        c == calls[Latest(idx)]
    IN  IF idx = {} THEN EmptyMap
        ELSE IF c.m = "set_properties" THEN c.a
        ELSE [k \in {c.a[1]} |-> c.a[2]]

\* remove_properties, read off the call sequence: every remove_property
\* argument, in call order
RECURSIVE RemovedUpTo(_)
RemovedUpTo(i) ==
    IF i = 0 THEN <<>>
    ELSE IF calls[i].m = "remove_property" THEN Append(RemovedUpTo(i - 1), calls[i].a)
    ELSE RemovedUpTo(i - 1)

\* remove_properties, were remove_property a plain setter
LastRemoved ==
    IF CallsOf("remove_property") = {} THEN <<>>
    ELSE <<calls[Latest(CallsOf("remove_property"))].a>>

SEVEN_DAYS_MS == 7 * 24 * 60 * 60 * 1000

\* the fields of a builder from MountOptions::builder() after the calls made:
\* the last argument per field, the default where the field was never set
ExpectedFields(props, removed) ==
    [update |-> LastArg("update", FALSE),
     add_properties |-> props,
     ttl_ms |-> LastSome("ttl_ms", Some(SEVEN_DAYS_MS)),
     ttl_action |-> LastSome("ttl_action", Some("Delete")),
     consistency_strategy |-> LastSome("consistency_strategy", None),
     storage_type |-> LastSome("storage_type", None),
     block_size |-> LastSome("block_size", None),
     replicas |-> LastSome("replicas", None),
     mount_type |-> LastArg("mount_type", "Cst"),
     remove_properties |-> removed,
     write_type |-> LastArg("write_type", "AsyncThrough"),
     provider |-> LastSome("provider", None)]

\* to_info carried write_type, ttl_ms, ttl_action and provider over unchanged
InfoCarriesOptions ==
    /\ info.write_type = options.write_type
    /\ Some(info.ttl_ms) = options.ttl_ms
    /\ Some(info.ttl_action) = options.ttl_action
    /\ info.provider = options.provider

\* C11 as stated: after any sequence of builder method calls on a builder
\* from MountOptions::builder(), build() yields options in which each field
\* holds the argument of the last call on that field and every field never
\* set holds its default; to_info carries write_type, ttl_ms, ttl_action and
\* provider over unchanged.
C11_LastSetterWins ==
    origin = "new" =>
        /\ stage \in {"built", "mounted", "queried"}
              => options = ExpectedFields(LastProperties, LastRemoved)
        /\ stage \in {"mounted", "queried"} => InfoCarriesOptions

\* C11 as amended: as C11, except that add_property and remove_property add
\* to their field: add_properties holds the map of the last set_properties
\* with every later add_property inserted, remove_properties holds every
\* remove_property argument in call order. Before build the builder holds
\* the same fields, so no method changes a field other than its own.
C11_BuilderFields ==
    origin = "new" =>
        /\ stage = "building"
              => builder = ExpectedFields(ExpectedProperties, RemovedUpTo(Len(calls)))
        /\ stage \in {"built", "mounted", "queried"}
              => options = ExpectedFields(ExpectedProperties, RemovedUpTo(Len(calls)))
        /\ stage \in {"mounted", "queried"} => InfoCarriesOptions

\* ttl_ms was set twice, the other fields never, and the MountInfo was made
C11_Witness ==
    /\ origin = "new"
    /\ stage = "mounted"
    /\ Len(calls) = 2
    /\ calls[1].m = "ttl_ms" /\ calls[2].m = "ttl_ms"
    /\ calls[1].a # calls[2].a
    /\ info.ttl_ms = calls[2].a
    /\ info.write_type = "AsyncThrough"
    /\ info.ttl_action = "Delete"

\* the quotient of ms by 1000 truncated toward zero, stated by its bounds
IsSeconds(q, ms) ==
    IF ms >= 0 THEN q * 1000 <= ms /\ ms < (q + 1) * 1000
    ELSE q * 1000 >= ms /\ ms > (q - 1) * 1000

\* what auto_cache and get_ttl return for the ttl_ms of the MountInfo
TtlAnswers ==
    /\ ttl_ret.fn = "auto_cache" => (ttl_ret.flag <=> info.ttl_ms > 0)
    /\ ttl_ret.fn = "get_ttl" =>
          /\ ttl_ret.str = None <=> info.ttl_ms > 0
          /\ ttl_ret.str # None =>
                /\ info.ttl_ms <= 0
                /\ \E q \in -2..0 :
                      /\ IsSeconds(q, info.ttl_ms)
                      /\ ttl_ret.str = Some(i64_to_string(q) \o <<"s">>)

\* C13 as stated: auto_cache() is true exactly when ttl_ms > 0, get_ttl()
\* is None exactly when ttl_ms > 0, a TTL string (ttl_ms / 1000 and "s") is
\* returned only when ttl_ms <= 0, and that is the case of every mount made
\* by to_info from options whose ttl_ms was never set.
C13_TtlNeverSet ==
    /\ TtlAnswers
    /\ (ttl_ret.fn = "get_ttl" /\ CallsOf("ttl_ms") = {})
          => (info.ttl_ms <= 0 /\ ttl_ret.str # None)

\* C13 as amended: the same answers of auto_cache and get_ttl; the mounts
\* with a TTL string include every mount made by to_info from options whose
\* ttl_ms is None (to_info stores 0 and get_ttl gives "0s"), while options
\* from MountOptions::builder() on which ttl_ms was never called hold 7 days,
\* so their mount has auto_cache() true and get_ttl() None.
C13_TtlQueries ==
    /\ TtlAnswers
    /\ (stage = "queried" /\ options.ttl_ms = None) =>
          /\ info.ttl_ms = 0
          /\ ttl_ret.fn = "auto_cache" => ~ttl_ret.flag
          /\ ttl_ret.fn = "get_ttl" => ttl_ret.str = Some(<<"0", "s">>)
    /\ (stage = "queried" /\ origin = "new" /\ CallsOf("ttl_ms") = {}) =>
          /\ info.ttl_ms = SEVEN_DAYS_MS
          /\ ttl_ret.fn = "auto_cache" => ttl_ret.flag
          /\ ttl_ret.fn = "get_ttl" => ttl_ret.str = None

\* get_ttl gave "0s" for a mount made from options whose ttl_ms is None
C13_Witness ==
    /\ stage = "queried"
    /\ options.ttl_ms = None
    /\ ttl_ret.fn = "get_ttl"
    /\ ttl_ret.str = Some(<<"0", "s">>)

====
